---- MODULE Spec2Model ----
(***************************************************************************)
(* The "king of the hill" bidding ledger of mas-rico-internet.             *)
(*                                                                         *)
(* Two generations of Netlify functions live in the repository:            *)
(*   - the current pair: the quoter create-payment-intent.js (lines 1-152) *)
(*     and the settlement webhooks (webhook.js, and the two further copies *)
(*     in create-payment-intent.js, lines 153-364 and 365-516), which keep *)
(*     users/{uid}, current/king and paymentHistory in Firestore;          *)
(*   - the earlier pair: unnamed/part_000 (quoter) and unnamed/part_001    *)
(*     (webhook), which keep current/king and history only.                *)
(* Spec is the current pair, SpecLegacy the earlier pair.  SpecQuote is    *)
(* the quoter alone on a range of stores, SpecForeign the webhooks on      *)
(* events of intents the quoter did not make and on forged deliveries.     *)
(*                                                                         *)
(* Money is counted in cents (the code holds dollars in doubles).  The     *)
(* fields of the documents that no handler reads back (username, email,    *)
(* lastPaymentAmount, lastPaymentDate, timestamp) are left out.            *)
(*                                                                         *)
(* A webhook invocation is one delivery of payment_intent.succeeded for an *)
(* intent; Stripe may deliver the event of an intent any number of times,  *)
(* and invocations run concurrently.  In Spec every signature verifies.    *)
(* The quoter's two reads (users/{uid}, then current/king) are taken at    *)
(* one instant.                                                            *)
(***************************************************************************)
EXTENDS Integers, Sequences, FiniteSets, TLC

VARIABLES
    users,           \* Firestore users/{uid}: totalInvested and stats
    king,            \* Firestore current/king, or NoKing when the document is absent
    paymentHistory,  \* Firestore paymentHistory, in commit order
    history,         \* Firestore history (written by unnamed/part_001 only)
    ver,             \* update versions of the documents, the store's conflict detection
    intents,         \* Stripe payment intents, by id, with their metadata
    deliv,           \* the webhook invocations that are running their transaction
    nDeliv,          \* deliveries of payment_intent.succeeded made so far
    response,        \* the last response a webhook invocation returned
    now              \* the clock (Date.now() and the server timestamp)

vars == <<users, king, paymentHistory, history, ver, intents, deliv, nDeliv,
          response, now>>

(***************************************************************************)
(* Bounds of the model.                                                    *)
(***************************************************************************)
MaxAmountIdx == 1    \* bid amounts offered are 50, 60, ... cents
MaxIntents == 2      \* payment intents created
MaxDeliveries == 3   \* webhook invocations
MaxInFlight == 2     \* webhook invocations running at once
MaxAttempts == 2     \* attempts of one runTransaction
MaxTime == 2         \* the clock runs 1..MaxTime

(***************************************************************************)
(* Constants of the program.                                               *)
(***************************************************************************)
STRIPE_MINIMUM_USD == 50
EPSILON == 1

Bidders == {"u1", "u2"}
Amounts == {STRIPE_MINIMUM_USD + 10 * k : k \in 0..MaxAmountIdx}

\* A metadata value is a string, a sequence of characters.  A missing key and
\* the empty string are one value here: !x, x || d, x === 'true' and
\* parseFloat(x) do not tell them apart.
Undefined == <<>>
\* parseFloat's NaN; every amount of the program is >= 0
NaN == -1
\* a missing identifier (a key the document does not hold)
NoId == ""
NotRead == -1

\* JavaScript's +, -, <, > and Math.max on numbers: NaN is absorbing, and every
\* comparison with NaN is false
Plus(a, b) == IF a = NaN \/ b = NaN THEN NaN ELSE a + b
Minus(a, b) == IF a = NaN \/ b = NaN THEN NaN ELSE a - b
Less(a, b) == a # NaN /\ b # NaN /\ a < b
Greater(a, b) == a # NaN /\ b # NaN /\ a > b
Max(a, b) == IF a = NaN \/ b = NaN THEN NaN ELSE IF a >= b THEN a ELSE b

(***************************************************************************)
(* Number.prototype.toString and parseFloat, on decimal digit strings.     *)
(* A string is a sequence of characters.                                   *)
(***************************************************************************)
Digit(d) == CASE d = 0 -> "0" [] d = 1 -> "1" [] d = 2 -> "2" [] d = 3 -> "3"
              [] d = 4 -> "4" [] d = 5 -> "5" [] d = 6 -> "6" [] d = 7 -> "7"
              [] d = 8 -> "8" [] d = 9 -> "9"

DigitValue(c) == CASE c = "0" -> 0 [] c = "1" -> 1 [] c = "2" -> 2 [] c = "3" -> 3
                   [] c = "4" -> 4 [] c = "5" -> 5 [] c = "6" -> 6 [] c = "7" -> 7
                   [] c = "8" -> 8 [] c = "9" -> 9 [] OTHER -> -1

RECURSIVE NumToString(_)
NumToString(n) == IF n = NaN THEN <<"N", "a", "N">>
                  ELSE IF n < 10 THEN <<Digit(n)>>
                  ELSE Append(NumToString(n \div 10), Digit(n % 10))

\* Number.prototype.toFixed(2) of an amount in dollars
ToFixed2(n) == IF n = NaN THEN <<"N", "a", "N">>
               ELSE NumToString(n \div 100) \o <<".", Digit((n % 100) \div 10), Digit(n % 10)>>

RECURSIVE ParseDigits(_, _)
ParseDigits(s, acc) ==
    IF s = <<>> \/ DigitValue(Head(s)) < 0 THEN acc
    ELSE ParseDigits(Tail(s), 10 * acc + DigitValue(Head(s)))

\* parseFloat: the longest numeric prefix, NaN when there is none
ParseFloat(s) ==
    IF s = Undefined \/ DigitValue(Head(s)) < 0 THEN NaN
    ELSE ParseDigits(s, 0)

BoolToString(b) == IF b THEN <<"t", "r", "u", "e">> ELSE <<"f", "a", "l", "s", "e">>
TrueString == <<"t", "r", "u", "e">>

\* JavaScript's x || d, for a number and for a string
NumOr(x, d) == IF x = NaN \/ x = 0 THEN d ELSE x
StrOr(s, d) == IF s = Undefined THEN d ELSE s

(***************************************************************************)
(* The documents.                                                          *)
(***************************************************************************)
NewUser == [totalInvested |-> 0,
            stats |-> [timesAsKing |-> 0, totalTimeAsKing |-> 0, longestReign |-> 0]]

\* current/king; exists is the snapshot's doc.exists
NoKing == [exists |-> FALSE, userId |-> NoId, nickname |-> NoId, amount |-> 0,
           crownedAt |-> 0, paymentIntentId |-> 0]

NoResponse == [pi |-> 0, status |-> 0]

Init ==
    /\ users = [u \in Bidders |-> NewUser]
    /\ king = NoKing
    /\ paymentHistory = <<>>
    /\ history = <<>>
    /\ ver = [users |-> [u \in Bidders |-> 0], king |-> 0]
    /\ intents = <<>>
    /\ deliv = <<>>
    /\ nDeliv = 0
    /\ response = NoResponse
    /\ now = 1

(***************************************************************************)
(* create-payment-intent.js: the quoter.                                   *)
(***************************************************************************)
\* a quoter that asks for the processor minimum only
RequiredToPayMinimumOnly(userCurrentInvestment, kingAmount) == STRIPE_MINIMUM_USD

\* the quoter without the 0.01 above the Throne: a tie would be accepted
RequiredToPayTie(userCurrentInvestment, kingAmount) ==
    Max(STRIPE_MINIMUM_USD, Minus(kingAmount, userCurrentInvestment))

RequiredToPay(userCurrentInvestment, kingAmount) ==
    Max(STRIPE_MINIMUM_USD, Minus(Plus(kingAmount, EPSILON), userCurrentInvestment))

\* the quoter predicting the payment alone as the new total
QuoteMetadataPaymentOnly(userId, amount, userCurrentInvestment, kingAmount) ==
    [userId |-> userId,
     username |-> userId,
     amountPaid |-> NumToString(amount),
     previousInvestment |-> NumToString(userCurrentInvestment),
     newTotalInvestment |-> NumToString(amount),
     willBecomeKing |-> BoolToString(Greater(amount, kingAmount)),
     currentKingAmount |-> NumToString(kingAmount),
     nickname |-> Undefined,
     originalAmount |-> Undefined]

QuoteMetadata(userId, amount, userCurrentInvestment, kingAmount) ==
    LET newTotalInvestment == Plus(userCurrentInvestment, amount)
        willBecomeKing == Greater(newTotalInvestment, kingAmount)
    IN  [userId |-> userId,
         username |-> userId,
         amountPaid |-> NumToString(amount),
         previousInvestment |-> NumToString(userCurrentInvestment),
         newTotalInvestment |-> NumToString(newTotalInvestment),
         willBecomeKing |-> BoolToString(willBecomeKing),
         currentKingAmount |-> NumToString(kingAmount),
         nickname |-> Undefined,
         originalAmount |-> Undefined]

CreatePaymentIntent(userId, amount) ==
    LET userCurrentInvestment == NumOr(users[userId].totalInvested, 0)
        kingAmount == IF king.exists THEN king.amount ELSE 0
    IN  /\ Len(intents) < MaxIntents
        /\ ~Less(amount, STRIPE_MINIMUM_USD)
        /\ ~Less(amount, RequiredToPay(userCurrentInvestment, kingAmount))
        /\ intents' = Append(intents,
                [id |-> Len(intents) + 1,
                 metadata |-> QuoteMetadata(userId, amount, userCurrentInvestment, kingAmount)])
        /\ UNCHANGED <<users, king, paymentHistory, history, ver, deliv, nDeliv,
                       response, now>>

(***************************************************************************)
(* The settlement webhooks.  Each runs its writes in db.runTransaction:    *)
(* the body reads documents, the commit applies the writes when no         *)
(* document read has been written since (the store's conflict detection),  *)
(* and the transaction is run again otherwise.                             *)
(***************************************************************************)
WebhookJs == "webhook.js"                       \* webhook.js
ReadsFirst == "create-payment-intent.js:177"    \* the copy that reads first
Unvalidated == "create-payment-intent.js:384"   \* the copy without validation
NoHandler == ""

\* an invocation inside db.runTransaction: the body has run at bodyNow and
\* read the documents at the versions snap
Running(pi, h, att, snap) ==
    [pi |-> pi, h |-> h, att |-> att, bodyNow |-> now, snap |-> snap]

Response(pi, status) == [pi |-> pi, status |-> status]

\* a catch that answers 200: the caller is not told of the failure
TransactionFailedQuietly(pi) == Response(pi, 200)

\* catch (error) around db.runTransaction: the 500 response
TransactionFailed(pi) == Response(pi, 500)

\* a handler that does not check the signature
ConstructEventUnchecked(signatureVerifies) == TRUE

\* stripe.webhooks.constructEvent(event.body, sig, endpointSecret) returns the
\* event when the signature verifies and throws otherwise
ConstructEvent(signatureVerifies) == signatureVerifies

Remove(seq, d) == [i \in 1..(Len(seq) - 1) |-> IF i < d THEN seq[i] ELSE seq[i + 1]]

\* if (!metadata.userId || !metadata.username || !metadata.amountPaid)
MetadataValid(md) ==
    md.userId # NoId /\ md.username # NoId /\ md.amountPaid # Undefined

\* metadata.willBecomeKing === 'true'
WillBecomeKing(md) == md.willBecomeKing = TrueString

\* the operations the transaction body issues, in order, when it runs on the
\* store as it is (the bidder's users document exists)
Get(doc) == [op |-> "get", doc |-> doc]
Write(doc) == [op |-> "write", doc |-> doc]

TransactionOps(h, md) ==
    LET readsPrev == king.exists /\ king.userId # NoId /\ king.userId # md.userId
        kingReads == <<Get("current/king")>>
                        \o (IF readsPrev THEN <<Get("users/previousKing")>> ELSE <<>>)
        kingWrites == (IF readsPrev /\ king.userId \in DOMAIN users
                       THEN <<Write("users/previousKing")>> ELSE <<>>)
                        \o <<Write("current/king"), Write("users/uid")>>
        writes == <<Write("users/uid"), Write("paymentHistory")>>
    IN  IF h = ReadsFirst
        THEN <<Get("users/uid")>> \o kingReads \o writes
                \o (IF WillBecomeKing(md) THEN kingWrites ELSE <<>>)
        ELSE <<Get("users/uid")>> \o writes
                \o (IF WillBecomeKing(md) THEN kingReads \o kingWrites ELSE <<>>)

\* a transaction.get issued after a transaction.update or transaction.set:
\* the handlers that read current/king only in the king branch
ReadsAfterWrite(h, md) ==
    LET ops == TransactionOps(h, md)
    IN  \E i, j \in DOMAIN ops : i < j /\ ops[i].op = "write" /\ ops[j].op = "get"

ReadsKing(h, md) == h = ReadsFirst \/ WillBecomeKing(md)

\* the previous king whose users/{uid} the body reads
PrevKingId(h, md) ==
    IF ReadsKing(h, md) /\ king.exists /\ king.userId # NoId
       /\ king.userId # md.userId /\ king.userId \in DOMAIN users
    THEN king.userId ELSE NoId

\* the versions of the documents the body reads
Snapshot(h, md) ==
    LET prevId == PrevKingId(h, md)
    IN  [user |-> ver.users[md.userId],
         king |-> IF ReadsKing(h, md) THEN ver.king ELSE NotRead,
         prevId |-> prevId,
         prev |-> IF prevId # NoId THEN ver.users[prevId] ELSE NotRead]

SnapshotValid(snap, md) ==
    /\ snap.user = ver.users[md.userId]
    /\ IF snap.king = NotRead THEN TRUE ELSE snap.king = ver.king
    /\ IF snap.prevId = NoId THEN TRUE ELSE snap.prev = ver.users[snap.prevId]

\* the handler up to the end of the first run of the transaction body.
\* sdkRejects: transaction.get issued after a write is refused by the
\* Firestore SDK (the transaction fails) or served, as the SDK decides.
HandleEvent(h, pi, sdkRejects) ==
    LET md == intents[pi].metadata
    IN  /\ nDeliv < MaxDeliveries
        /\ Len(deliv) < MaxInFlight
        /\ nDeliv' = nDeliv + 1
        /\ IF h # Unvalidated /\ ~MetadataValid(md)
           THEN deliv' = deliv /\ response' = Response(pi, 400)
           ELSE IF md.userId \notin DOMAIN users
           THEN deliv' = deliv /\ response' = TransactionFailed(pi)
           ELSE IF ReadsAfterWrite(h, md) /\ sdkRejects
           THEN deliv' = deliv /\ response' = TransactionFailed(pi)
           ELSE /\ deliv' = Append(deliv, Running(pi, h, 1, Snapshot(h, md)))
                /\ response' = response
        /\ UNCHANGED <<users, king, paymentHistory, history, ver, intents, now>>

\* one delivery to a handler: the signature check, then the event
Deliver(h, pi, signatureVerifies, sdkRejects) ==
    IF ConstructEvent(signatureVerifies)
    THEN HandleEvent(h, pi, sdkRejects)
    ELSE /\ nDeliv < MaxDeliveries
         /\ nDeliv' = nDeliv + 1
         /\ response' = Response(pi, 400)
         /\ UNCHANGED <<users, king, paymentHistory, history, ver, intents, deliv,
                        now>>

Webhook(pi, sdkRejects) == Deliver(WebhookJs, pi, TRUE, sdkRejects)

WebhookReadsFirst(pi) == Deliver(ReadsFirst, pi, TRUE, FALSE)

WebhookUnvalidated(pi, sdkRejects) == Deliver(Unvalidated, pi, TRUE, sdkRejects)

\* the value the transaction writes to users/{uid}.totalInvested: the quote's
\* total, read back from the metadata; the userData read is not used
NewTotalInvestment(md, userData) == ParseFloat(md.newTotalInvestment)

\* whether the transaction sets current/king: the quote's flag, read back
\* from the metadata; neither userData nor the king read is used
BecomesKing(md, userData, kingData) == WillBecomeKing(md)

\* previousTotal of the paymentHistory document
PreviousTotal(h, md) ==
    IF h = Unvalidated THEN ParseFloat(md.previousInvestment)
    ELSE ParseFloat(StrOr(md.previousInvestment, <<"0">>))

\* a history document that records every payment as a coronation
HistoryDocAlwaysKing(h, pi, md, userData, kingData) ==
    [userId |-> md.userId,
     amountPaid |-> ParseFloat(md.amountPaid),
     previousTotal |-> PreviousTotal(h, md),
     newTotal |-> NewTotalInvestment(md, userData),
     paymentIntentId |-> pi,
     willBecomeKing |-> TRUE]

HistoryDoc(h, pi, md, userData, kingData) ==
    [userId |-> md.userId,
     amountPaid |-> ParseFloat(md.amountPaid),
     previousTotal |-> PreviousTotal(h, md),
     newTotal |-> NewTotalInvestment(md, userData),
     paymentIntentId |-> pi,
     willBecomeKing |-> BecomesKing(md, userData, kingData)]

\* Date.now() - (crownedAt?.toMillis() || Date.now())
ReignDuration(bodyNow, kingData) == bodyNow - NumOr(kingData.crownedAt, bodyNow)

\* users after the writes of the transaction
UsersAfter(md, prevId, bodyNow) ==
    LET uid == md.userId
        userData == users[uid]
        crowned == BecomesKing(md, userData, king)
        reignDuration == ReignDuration(bodyNow, king)
    IN  [u \in DOMAIN users |->
            IF u = uid THEN
                [totalInvested |-> NewTotalInvestment(md, userData),
                 stats |-> [userData.stats EXCEPT !.timesAsKing =
                               IF crowned THEN NumOr(@, 0) + 1 ELSE @]]
            ELSE IF crowned /\ u = prevId THEN
                [users[u] EXCEPT
                    !.stats.totalTimeAsKing = NumOr(@, 0) + reignDuration,
                    !.stats.longestReign = Max(NumOr(@, 0), reignDuration)]
            ELSE users[u]]

\* a coronation that keeps the reign's start when the holder pays again
KingAfterKeepsReign(pi, md) ==
    IF BecomesKing(md, users[md.userId], king)
    THEN [exists |-> TRUE, userId |-> md.userId, nickname |-> NoId,
          amount |-> NewTotalInvestment(md, users[md.userId]),
          crownedAt |-> IF king.exists /\ king.userId = md.userId
                        THEN king.crownedAt ELSE now,
          paymentIntentId |-> pi]
    ELSE king

KingAfter(pi, md) ==
    IF BecomesKing(md, users[md.userId], king)
    THEN [exists |-> TRUE, userId |-> md.userId, nickname |-> NoId,
          amount |-> NewTotalInvestment(md, users[md.userId]),
          crownedAt |-> now, paymentIntentId |-> pi]
    ELSE king

\* the commit of a transaction whose reads are still current
TxCommit(d) ==
    LET e == deliv[d]
        md == intents[e.pi].metadata
        crowned == BecomesKing(md, users[md.userId], king)
    IN  /\ SnapshotValid(e.snap, md)
        /\ users' = UsersAfter(md, e.snap.prevId, e.bodyNow)
        /\ king' = KingAfter(e.pi, md)
        /\ paymentHistory' = Append(paymentHistory,
                                HistoryDoc(e.h, e.pi, md, users[md.userId], king))
        /\ ver' = [users |-> [u \in DOMAIN users |->
                        IF u = md.userId \/ (crowned /\ u = e.snap.prevId)
                        THEN ver.users[u] + 1 ELSE ver.users[u]],
                   king |-> IF crowned THEN ver.king + 1 ELSE ver.king]
        /\ deliv' = Remove(deliv, d)
        /\ response' = Response(e.pi, 200)
        /\ UNCHANGED <<history, intents, nDeliv, now>>

\* a write conflict: the body is run again, or the transaction fails
TxRetry(d) ==
    LET e == deliv[d]
        md == intents[e.pi].metadata
    IN  /\ ~SnapshotValid(e.snap, md)
        /\ IF e.att < MaxAttempts
           THEN /\ deliv' = [deliv EXCEPT ![d] =
                                Running(e.pi, e.h, e.att + 1, Snapshot(e.h, md))]
                /\ response' = response
           ELSE /\ deliv' = Remove(deliv, d)
                /\ response' = TransactionFailed(e.pi)
        /\ UNCHANGED <<users, king, paymentHistory, history, ver, intents, nDeliv,
                       now>>

Tick ==
    /\ now < MaxTime
    /\ now' = now + 1
    /\ UNCHANGED <<users, king, paymentHistory, history, ver, intents, deliv,
                   nDeliv, response>>

Next ==
    \/ \E u \in Bidders, a \in Amounts : CreatePaymentIntent(u, a)
    \/ \E pi \in DOMAIN intents : WebhookReadsFirst(pi)
    \/ \E pi \in DOMAIN intents, r \in BOOLEAN : Webhook(pi, r)
    \/ \E pi \in DOMAIN intents, r \in BOOLEAN : WebhookUnvalidated(pi, r)
    \/ \E d \in DOMAIN deliv : TxCommit(d)
    \/ \E d \in DOMAIN deliv : TxRetry(d)
    \/ Tick

Spec == Init /\ [][Next]_vars

(***************************************************************************)
(* unnamed/part_000 and unnamed/part_001: the earlier quoter and webhook.  *)
(* The webhook reads current/king, sets it and adds to history in three    *)
(* separate store operations, outside any transaction.                     *)
(***************************************************************************)
Nicknames == Bidders
ReyInicial == "@ReyInicial"

LegacyMetadata(nickname, amount) ==
    [userId |-> NoId,
     username |-> NoId,
     amountPaid |-> Undefined,
     previousInvestment |-> Undefined,
     newTotalInvestment |-> Undefined,
     willBecomeKing |-> Undefined,
     currentKingAmount |-> Undefined,
     nickname |-> nickname,
     originalAmount |-> NumToString(amount)]

\* part_000: if (!amount || !nickname || amount <= 0) 400, else the intent
LegacyCreatePaymentIntent(nickname, amount) ==
    /\ Len(intents) < MaxIntents
    /\ ~(amount = 0 \/ nickname = NoId \/ amount <= 0)
    /\ intents' = Append(intents,
            [id |-> Len(intents) + 1, metadata |-> LegacyMetadata(nickname, amount)])
    /\ UNCHANGED <<users, king, paymentHistory, history, ver, deliv, nDeliv,
                   response, now>>

\* part_001: db.collection('current').doc('king').get()
LegacyReadKing(pi) ==
    /\ nDeliv < MaxDeliveries
    /\ Len(deliv) < MaxInFlight
    /\ nDeliv' = nDeliv + 1
    /\ deliv' = Append(deliv,
            [pi |-> pi, pc |-> "set",
             previousKing |-> IF king.exists THEN king.nickname ELSE ReyInicial])
    /\ UNCHANGED <<users, king, paymentHistory, history, ver, intents, response,
                   now>>

LegacyKing(pi, md) ==
    [exists |-> TRUE, userId |-> NoId, nickname |-> md.nickname,
     amount |-> ParseFloat(md.originalAmount), crownedAt |-> 0,
     paymentIntentId |-> pi]

\* part_001: db.collection('current').doc('king').set({...})
LegacySetKing(d) ==
    LET e == deliv[d]
        md == intents[e.pi].metadata
    IN  /\ e.pc = "set"
        /\ king' = LegacyKing(e.pi, md)
        /\ ver' = [ver EXCEPT !.king = @ + 1]
        /\ deliv' = [deliv EXCEPT ![d].pc = "add"]
        /\ UNCHANGED <<users, paymentHistory, history, intents, nDeliv, response,
                       now>>

\* `${nickname} destronó a ${previousKing} con $${amount.toFixed(2)}`
LegacyMessage(md, previousKing) ==
    [nickname |-> md.nickname, previousKing |-> previousKing,
     amount |-> ParseFloat(md.originalAmount)]

\* part_001: db.collection('history').add({...}), then the 200 response
LegacyAddHistory(d) ==
    LET e == deliv[d]
        md == intents[e.pi].metadata
    IN  /\ e.pc = "add"
        /\ history' = Append(history,
                [message |-> LegacyMessage(md, e.previousKing),
                 paymentIntentId |-> e.pi])
        /\ deliv' = Remove(deliv, d)
        /\ response' = Response(e.pi, 200)
        /\ UNCHANGED <<users, king, paymentHistory, ver, intents, nDeliv, now>>

\* part_001: the store operation the invocation is about to make throws, and
\* the catch answers 500; what the earlier operations wrote stays written
LegacyStoreError(d) ==
    LET e == deliv[d]
    IN  /\ e.pc \in {"set", "add"}
        /\ deliv' = Remove(deliv, d)
        /\ response' = Response(e.pi, 500)
        /\ UNCHANGED <<users, king, paymentHistory, history, ver, intents, nDeliv,
                       now>>

NextLegacy ==
    \/ \E n \in Nicknames, a \in Amounts : LegacyCreatePaymentIntent(n, a)
    \/ \E pi \in DOMAIN intents : LegacyReadKing(pi)
    \/ \E d \in DOMAIN deliv : LegacySetKing(d)
    \/ \E d \in DOMAIN deliv : LegacyAddHistory(d)
    \/ \E d \in DOMAIN deliv : LegacyStoreError(d)

SpecLegacy == Init /\ [][NextLegacy]_vars

(***************************************************************************)
(* The quoter as a function of the store: create-payment-intent.js 23-152  *)
(* with every response it can give, run on stores whose totals and Throne  *)
(* are drawn from QuoteTotals.  response holds the last exchange: the      *)
(* request (token, bid) and the response (status, error, the amount the    *)
(* error message shows).                                                   *)
(***************************************************************************)
QuoteTotals == {0, 500, 1000, 1200}
BidAmounts == {0, 0 - 50, 49, 50, 500, 501, 1000, 1001}
\* Firebase Auth accounts: the Bidders, and one without a users document
NoDocUser == "u3"
Tokens == Bidders \cup {NoDocUser, NoId}

Required == "Amount and idToken are required"
Minimum == "El monto minimo para procesar un pago es $"
UserNotFound == "User not found"
NeedAtLeast == "Necesitas pagar al menos $ para ser rey"
NoError == ""

QuoteResponse(token, bid, status, error, shown) ==
    [token |-> token, bid |-> bid, status |-> status, error |-> error,
     shown |-> shown]

InitQuote ==
    /\ \E t1, t2 \in QuoteTotals :
          /\ users = [u \in Bidders |->
                        [NewUser EXCEPT !.totalInvested = IF u = "u1" THEN t1 ELSE t2]]
          /\ king = IF t2 = 0 THEN NoKing
                    ELSE [exists |-> TRUE, userId |-> "u2", nickname |-> NoId,
                          amount |-> t2, crownedAt |-> 1, paymentIntentId |-> 0]
    /\ paymentHistory = <<>>
    /\ history = <<>>
    /\ ver = [users |-> [u \in Bidders |-> 0], king |-> 0]
    /\ intents = <<>>
    /\ deliv = <<>>
    /\ nDeliv = 0
    /\ response = QuoteResponse(NoId, 0, 0, NoError, Undefined)
    /\ now = 1

\* the response of exports.handler to POST {amount: bid, idToken: token}
QuoteOutcome(token, bid) ==
    IF bid = 0 \/ token = NoId
    THEN QuoteResponse(token, bid, 400, Required, Undefined)
    ELSE IF Less(bid, STRIPE_MINIMUM_USD)
    THEN QuoteResponse(token, bid, 400, Minimum, ToFixed2(STRIPE_MINIMUM_USD))
    ELSE IF token \notin DOMAIN users
    THEN QuoteResponse(token, bid, 404, UserNotFound, Undefined)
    ELSE LET userCurrentInvestment == NumOr(users[token].totalInvested, 0)
             kingAmount == IF king.exists THEN king.amount ELSE 0
             requiredToPay == RequiredToPay(userCurrentInvestment, kingAmount)
         IN  IF Less(bid, requiredToPay)
             THEN QuoteResponse(token, bid, 400, NeedAtLeast, ToFixed2(requiredToPay))
             ELSE QuoteResponse(token, bid, 200, NoError, Undefined)

Quote(token, bid) ==
    LET r == QuoteOutcome(token, bid)
    IN  /\ response' = r
        /\ IF r.status = 200
           THEN /\ Len(intents) < MaxIntents
                /\ intents' = Append(intents,
                      [id |-> Len(intents) + 1,
                       metadata |-> QuoteMetadata(token, bid,
                                       NumOr(users[token].totalInvested, 0),
                                       IF king.exists THEN king.amount ELSE 0)])
           ELSE intents' = intents
        /\ UNCHANGED <<users, king, paymentHistory, history, ver, deliv, nDeliv, now>>

NextQuote == \E token \in Tokens, bid \in BidAmounts : Quote(token, bid)

SpecQuote == InitQuote /\ [][NextQuote]_vars

(***************************************************************************)
(* The webhooks on the events their endpoint can receive besides those of  *)
(* the quoter's intents (Spec).  Stripe sends payment_intent.succeeded for *)
(* every intent of the account, whoever created it and whatever its        *)
(* metadata; and anyone can post to the endpoint a body whose signature    *)
(* does not verify.                                                        *)
(***************************************************************************)
Handlers == {WebhookJs, ReadsFirst, Unvalidated}

\* metadata of intents the quoter of Spec did not make: a quote for a uid
\* whose users document is gone, a quote whose total only ties the Throne
\* (willBecomeKing 'false'), a quote-like metadata without
\* newTotalInvestment, and the metadata part_000 attaches
ForeignMetadata ==
    {QuoteMetadata(NoDocUser, STRIPE_MINIMUM_USD, 0, 0),
     QuoteMetadata("u2", STRIPE_MINIMUM_USD, 0, STRIPE_MINIMUM_USD),
     [QuoteMetadata("u1", STRIPE_MINIMUM_USD, 0, 0)
          EXCEPT !.newTotalInvestment = Undefined],
     LegacyMetadata("u1", STRIPE_MINIMUM_USD)}

ForeignPaymentIntent(md) ==
    /\ Len(intents) < MaxIntents
    /\ intents' = Append(intents, [id |-> Len(intents) + 1, metadata |-> md])
    /\ UNCHANGED <<users, king, paymentHistory, history, ver, deliv, nDeliv,
                   response, now>>

\* a delivery whose stripe-signature does not verify
ForgedDelivery(h, pi) == Deliver(h, pi, FALSE, FALSE)

NextForeign ==
    \/ \E md \in ForeignMetadata : ForeignPaymentIntent(md)
    \/ \E pi \in DOMAIN intents : WebhookReadsFirst(pi)
    \/ \E pi \in DOMAIN intents, r \in BOOLEAN : Webhook(pi, r)
    \/ \E pi \in DOMAIN intents, r \in BOOLEAN : WebhookUnvalidated(pi, r)
    \/ \E d \in DOMAIN deliv : TxCommit(d)
    \/ \E d \in DOMAIN deliv : TxRetry(d)
    \/ \E h \in Handlers, pi \in DOMAIN intents : ForgedDelivery(h, pi)

SpecForeign == Init /\ [][NextForeign]_vars

(***************************************************************************)
(* The properties.                                                         *)
(***************************************************************************)
UserOf(pi) == intents[pi].metadata.userId
AmountPaid(pi) == ParseFloat(intents[pi].metadata.amountPaid)
ThroneAmount == IF king.exists THEN king.amount ELSE 0

\* the paymentHistory documents of a payment reference
EventsFor(pi) == {i \in DOMAIN paymentHistory : paymentHistory[i].paymentIntentId = pi}
Settled(pi) == EventsFor(pi) # {}

\* a step in which a webhook invocation for pi commits and answers 200
Settles(pi) ==
    /\ Len(deliv') < Len(deliv)
    /\ response' = Response(pi, 200)
    /\ \E d \in DOMAIN deliv : deliv[d].pi = pi /\ deliv' = Remove(deliv, d)

\* the first settlement of pi, and a settlement of a redelivery of pi
FirstSettles(pi) == Settles(pi) /\ ~Settled(pi)
Resettles(pi) == Settles(pi) /\ Settled(pi)

\* C1: idempotence of settlement: settling a payment reference that is already
\* settled (a redelivery after the first delivery committed) leaves every
\* Bidder record, the Throne record and the history unchanged, so the history
\* holds exactly one HistoryEvent for that reference.
C1_SettlementIdempotent ==
    [][\A pi \in DOMAIN intents :
          Resettles(pi) =>
              /\ users' = users
              /\ king' = king
              /\ paymentHistory' = paymentHistory]_vars

\* C2: authoritative recomputation: a settlement writes to the bidder's
\* totalInvested the stored totalInvested plus amountPaid, whatever total the
\* event predicts.
C2_AuthoritativeRecomputation ==
    [][\A pi \in DOMAIN intents :
          FirstSettles(pi) =>
              users'[UserOf(pi)].totalInvested =
                  users[UserOf(pi)].totalInvested + AmountPaid(pi)]_vars

\* C3: totalInvested of every bidder never decreases.
C3_TotalInvestedNonDecreasing ==
    [][\A u \in Bidders : users'[u].totalInvested >= users[u].totalInvested]_vars

\* C4: coronation rule: a settlement replaces the Throne record if and only
\* if the payer's recomputed total (stored totalInvested + amountPaid) exceeds
\* the Throne amount of the store at that settlement by at least EPSILON, and
\* Throne.amount strictly increases at every replacement.
C4_CoronationRule ==
    [][\A pi \in DOMAIN intents :
          FirstSettles(pi) =>
              /\ (ver'.king # ver.king) <=>
                    (users[UserOf(pi)].totalInvested + AmountPaid(pi)
                        >= ThroneAmount + EPSILON)
              /\ (ver'.king # ver.king) => king'.amount > ThroneAmount]_vars

\* two quotes of different bidders that both predicted victory against the
\* same throne amount
Rivals(p, q) ==
    /\ UserOf(p) # UserOf(q)
    /\ intents[p].metadata.currentKingAmount = intents[q].metadata.currentKingAmount
    /\ WillBecomeKing(intents[p].metadata)
    /\ WillBecomeKing(intents[q].metadata)

\* C5: race resolution: when two rival payments are the only settlements and
\* the one settled second does not bring its payer above the first one's
\* total, there is exactly one coronation, the first payer holds the Throne,
\* and each bidder's totalInvested has grown by the amount paid.
C5_RaceResolution ==
    \A p, q \in DOMAIN intents :
        (/\ Rivals(p, q)
         /\ Len(paymentHistory) = 2
         /\ paymentHistory[1].paymentIntentId = p
         /\ paymentHistory[2].paymentIntentId = q
         /\ AmountPaid(q) <= AmountPaid(p))
        => /\ ver.king = 1
           /\ king.userId = UserOf(p)
           /\ users[UserOf(p)].totalInvested = AmountPaid(p)
           /\ users[UserOf(q)].totalInvested = AmountPaid(q)

\* C6: stale-quote loser: a settlement whose payer's post-payment total does
\* not exceed the Throne amount of another holder leaves the Throne record
\* and every bidder's reign statistics unchanged, increases the payer's
\* totalInvested by amountPaid and appends a HistoryEvent marked as a
\* contribution.
C6_StaleQuoteLoser ==
    [][\A pi \in DOMAIN intents :
          (/\ FirstSettles(pi)
           /\ king.exists
           /\ king.userId # UserOf(pi)
           /\ users[UserOf(pi)].totalInvested + AmountPaid(pi) <= king.amount)
          => /\ king' = king
             /\ \A u \in Bidders : users'[u].stats = users[u].stats
             /\ users'[UserOf(pi)].totalInvested =
                    users[UserOf(pi)].totalInvested + AmountPaid(pi)
             /\ Len(paymentHistory') = Len(paymentHistory) + 1
             /\ ~paymentHistory'[Len(paymentHistory')].willBecomeKing]_vars

\* C7: at-least-once delivery: the history holds at most one HistoryEvent per
\* payment reference.
C7_OneEventPerReference ==
    \A pi \in DOMAIN intents : Cardinality(EventsFor(pi)) <= 1

\* C8: largest contributor: when a Throne record exists, no bidder has a
\* totalInvested above the holder's.
C8_HolderIsLargestContributor ==
    king.exists =>
        \A u \in Bidders :
            users[king.userId].totalInvested >= users[u].totalInvested

\* the bidder a Throne record names
Holder(k) == IF k.userId # NoId THEN k.userId ELSE k.nickname

\* C9: every settlement that installs a Throne record gives it the amount
\* that the holder's Bidder record has as totalInvested right after that
\* settlement.
C9_ThroneAmountIsHolderTotal ==
    [][ver'.king # ver.king =>
          /\ king'.exists
          /\ king'.amount = users'[Holder(king')].totalInvested]_vars

\* the store after the part_001 webhook has handled the events of order, one
\* after the other
RECURSIVE LegacySerial(_, _, _)
LegacySerial(order, k, h) ==
    IF order = <<>> THEN [king |-> k, history |-> h]
    ELSE LET pi == Head(order)
             md == intents[pi].metadata
             previousKing == IF k.exists THEN k.nickname ELSE ReyInicial
         IN  LegacySerial(Tail(order), LegacyKing(pi, md),
                 Append(h, [message |-> LegacyMessage(md, previousKing),
                            paymentIntentId |-> pi]))

Range(f) == {f[i] : i \in DOMAIN f}

\* C10: serializable settlements: once two settlements of different bidders
\* have both completed, the Throne and the history are those of running the
\* two one after the other in some order.
C10_Serializable ==
    \A p, q \in DOMAIN intents :
        (/\ intents[p].metadata.nickname # intents[q].metadata.nickname
         /\ deliv = <<>>
         /\ nDeliv = 2
         /\ {history[i].paymentIntentId : i \in DOMAIN history} = {p, q})
        => \E order \in {<<p, q>>, <<q, p>>} :
               LET serial == LegacySerial(order, NoKing, <<>>)
               IN  /\ king = serial.king
                   /\ Range(history) = Range(serial.history)

\* C11: atomic settlement: for every payment reference either none of its
\* settlement writes is visible or all of them are: no invocation is running,
\* or has answered, with the Throne of a payment written and its history
\* entry (PaymentEvent of webhook.js, history document of part_001) missing.
C11_AtomicSettlement ==
    \A pi \in DOMAIN intents :
        (king.exists /\ king.paymentIntentId = pi)
        => \/ Settled(pi)
           \/ \E i \in DOMAIN history : history[i].paymentIntentId = pi

\* what the quoter owes a bidder, from the store: the larger of the processor
\* minimum and the Throne plus one cent less the bidder's total
ExpectedRequired(u) ==
    LET need == (ThroneAmount + EPSILON) - users[u].totalInvested
    IN  IF need > STRIPE_MINIMUM_USD THEN need ELSE STRIPE_MINIMUM_USD

\* C12: the quoter's requiredToPay is max(MIN_PAYMENT, throneAmount + EPSILON -
\* bidderTotalInvested), never negative: 1001 for (0, 1000), 501 for
\* (500, 1000), 50 for (1200, 1000); a bid is accepted exactly when it reaches
\* it, and a rejected bid is told it.
C12_QuoterResult ==
    /\ \A u \in Bidders :
          LET total == users[u].totalInvested
              requiredToPay == RequiredToPay(NumOr(total, 0), ThroneAmount)
          IN  /\ requiredToPay = ExpectedRequired(u)
              /\ requiredToPay >= 0
              /\ (total = 0 /\ ThroneAmount = 1000) => requiredToPay = 1001
              /\ (total = 500 /\ ThroneAmount = 1000) => requiredToPay = 501
              /\ (total = 1200 /\ ThroneAmount = 1000) => requiredToPay = 50
    /\ (response.token \in Bidders /\ response.bid >= STRIPE_MINIMUM_USD) =>
          IF response.bid >= ExpectedRequired(response.token)
          THEN response.status = 200
          ELSE /\ response.status = 400
               /\ response.error = NeedAtLeast
               /\ response.shown = ToFixed2(ExpectedRequired(response.token))

\* a bidder with nothing invested bids 0.50 against a Throne of 10.00 and is
\* told 10.01
C12_Witness ==
    /\ response.token \in Bidders
    /\ users[response.token].totalInvested = 0
    /\ ThroneAmount = 1000
    /\ response.bid = 50
    /\ response.status = 400
    /\ response.shown = <<"1", "0", ".", "0", "1">>

\* C13: a bid that is missing, not positive or below requiredToPay is rejected
\* with a 400, creates no payment intent, and the error response tells the
\* bidder requiredToPay; a bid that reaches requiredToPay is accepted.
C13_RejectionTellsRequired ==
    [][\A t \in Bidders, b \in BidAmounts :
          Quote(t, b) =>
             IF b <= 0 \/ b < ExpectedRequired(t)
             THEN /\ response'.status = 400
                  /\ intents' = intents
                  /\ response'.shown = ToFixed2(ExpectedRequired(t))
             ELSE /\ response'.status = 200
                  /\ Len(intents') = Len(intents) + 1]_vars

\* C14: a confirmed payment whose bidder has no users document fails with a
\* failure response, starts no transaction attempt and leaves the Throne,
\* every bidder and the history unchanged.
C14_BidderNotFound ==
    [][\A pi \in DOMAIN intents :
          UserOf(pi) \notin DOMAIN users =>
             /\ \A d \in DOMAIN deliv' : deliv'[d].pi # pi
             /\ \A h \in Handlers, r \in BOOLEAN :
                   (MetadataValid(intents[pi].metadata) /\ Deliver(h, pi, TRUE, r)) =>
                       /\ response' = Response(pi, 500)
                       /\ UNCHANGED <<users, king, paymentHistory, history, ver>>]_vars

\* the event of an intent whose userId names no users document has been
\* delivered and answered 500
C14_Witness ==
    \E pi \in DOMAIN intents :
        /\ UserOf(pi) = NoDocUser
        /\ response = Response(pi, 500)
        /\ nDeliv > 0

\* the metadata a settlement computes its writes from: the bidder, the amount
\* paid and the quote's total and flag
MetadataComplete(md) ==
    /\ md.userId # NoId
    /\ ParseFloat(md.amountPaid) # NaN
    /\ ParseFloat(md.newTotalInvestment) # NaN
    /\ md.willBecomeKing # Undefined

\* C15: an event that lacks a field the settlement uses is rejected before any
\* store access: no transaction attempt runs for it and nothing is recorded
\* for it; and no totalInvested and no Throne amount is ever not a number.
C15_MalformedEventRejected ==
    /\ \A pi \in DOMAIN intents :
          ~MetadataComplete(intents[pi].metadata) =>
             /\ \A d \in DOMAIN deliv : deliv[d].pi # pi
             /\ ~Settled(pi)
    /\ \A u \in DOMAIN users : users[u].totalInvested # NaN
    /\ king.amount # NaN

\* C16: when a settlement crowns a bidder other than the holder, the
\* dethroned holder's totalTimeAsKing grows by exactly the time from the
\* replaced Throne's crownedAt to the new Throne's crownedAt, and longestReign
\* becomes the larger of its old value and that duration: the reign ends at
\* the instant the new one begins.
C16_ReignStatistics ==
    [][\A pi \in DOMAIN intents :
          (/\ Settles(pi)
           /\ ver'.king # ver.king
           /\ king.exists
           /\ king.userId \in DOMAIN users
           /\ king.userId # UserOf(pi))
          => LET prev == king.userId
                 duration == king'.crownedAt - king.crownedAt
             IN  /\ users'[prev].stats.totalTimeAsKing
                       = users[prev].stats.totalTimeAsKing + duration
                 /\ users'[prev].stats.longestReign
                       = IF duration > users[prev].stats.longestReign
                         THEN duration ELSE users[prev].stats.longestReign]_vars

\* C17: an accepted bid attaches to the payment intent the bidder's total and
\* the Throne amount read at quote time, and the prediction made from them:
\* newTotalInvestment = total + amount and willBecomeKing = (newTotalInvestment
\* > Throne amount).
C17_QuotePrediction ==
    response.status = 200 =>
        LET md == intents[Len(intents)].metadata
            total == users[response.token].totalInvested
            predictedNewTotal == total + response.bid
        IN  /\ md.userId = response.token
            /\ ParseFloat(md.amountPaid) = response.bid
            /\ ParseFloat(md.previousInvestment) = total
            /\ ParseFloat(md.currentKingAmount) = ThroneAmount
            /\ ParseFloat(md.newTotalInvestment) = predictedNewTotal
            /\ (md.willBecomeKing = TrueString) = (predictedNewTotal > ThroneAmount)
            /\ md.willBecomeKing \in {TrueString, BoolToString(FALSE)}

\* a bidder with 5.00 invested has bid 5.01 against a Throne of 10.00 and the
\* intent carries the new total 10.01
C17_Witness ==
    /\ response.status = 200
    /\ users[response.token].totalInvested = 500
    /\ ThroneAmount = 1000
    /\ response.bid = 501
    /\ ParseFloat(intents[Len(intents)].metadata.newTotalInvestment) = 1001

\* C18: a transaction aborted by a write conflict is run again from its first
\* read, on the documents as they then are; and an event that is committed is
\* committed exactly once: after the commit the history holds one
\* PaymentEvent of its payment intent.
C18_RetryAndExactlyOnce ==
    [][/\ \A d \in DOMAIN deliv :
             (d \in DOMAIN deliv' /\ deliv'[d].att = deliv[d].att + 1) =>
                 /\ deliv'[d].pi = deliv[d].pi
                 /\ SnapshotValid(deliv'[d].snap, intents[deliv[d].pi].metadata)
       /\ \A pi \in DOMAIN intents :
             Settles(pi) => Cardinality(EventsFor(pi)') = 1]_vars

\* C19: an event whose signature does not verify is rejected before any
\* settlement step: the delivery answers 400, starts no transaction attempt
\* and leaves every stored document unchanged.
C19_AuthenticityBoundary ==
    [][\A h \in Handlers, pi \in DOMAIN intents :
          Deliver(h, pi, FALSE, FALSE) =>
             /\ response' = Response(pi, 400)
             /\ UNCHANGED <<users, king, paymentHistory, history, ver, deliv, intents>>]_vars

\* the well-formed event of a quote has been delivered with a signature that
\* does not verify, and answered 400
C19_Witness ==
    \E pi \in DOMAIN intents :
        /\ MetadataValid(intents[pi].metadata)
        /\ response = Response(pi, 400)
        /\ nDeliv > 0

\* C20: in every run of the settlement transaction, whichever handler runs it
\* and whether or not it crowns, every read of users/{uid}, of current/king
\* and of the previous king's users document is issued before the first write.
C20_ReadsBeforeWrites ==
    [][\A h \in Handlers, pi \in DOMAIN intents, r \in BOOLEAN :
          (/\ Deliver(h, pi, TRUE, r)
           /\ MetadataValid(intents[pi].metadata)
           /\ UserOf(pi) \in DOMAIN users)
          => LET ops == TransactionOps(h, intents[pi].metadata)
             IN  \A i, j \in DOMAIN ops :
                    (i < j /\ ops[j].op = "get") => ops[i].op = "get"]_vars

\* the paymentHistory document a commit has just added
LastEvent == paymentHistory[Len(paymentHistory)]

\* C21: the PaymentEvent a settlement writes is marked willBecomeKing exactly
\* when that settlement replaced current/king, which then carries the
\* settlement's payment intent; and its newTotal is the totalInvested the
\* settlement wrote to the payer's users document.
C21_HistoryAgreesWithOutcome ==
    [][\A pi \in DOMAIN intents :
          Settles(pi) =>
             /\ Len(paymentHistory') = Len(paymentHistory) + 1
             /\ LastEvent'.paymentIntentId = pi
             /\ LastEvent'.willBecomeKing = (ver'.king # ver.king)
             /\ LastEvent'.willBecomeKing => king'.paymentIntentId = pi
             /\ ~LastEvent'.willBecomeKing => king' = king
             /\ LastEvent'.newTotal = users'[UserOf(pi)].totalInvested]_vars

\* a settlement that crowned and a settlement that did not have both been
\* committed
C21_Witness ==
    /\ \E i \in DOMAIN paymentHistory : paymentHistory[i].willBecomeKing
    /\ \E i \in DOMAIN paymentHistory : ~paymentHistory[i].willBecomeKing

\* the payment intents whose settlement crowned u, from the history
CrownedBy(u) ==
    {paymentHistory[i].paymentIntentId :
        i \in {j \in DOMAIN paymentHistory :
                    paymentHistory[j].userId = u /\ paymentHistory[j].willBecomeKing}}

\* C22: a settlement that replaces current/king adds exactly 1 to the new
\* holder's timesAsKing and a settlement that does not leaves every
\* timesAsKing as it was, so that after every settlement each bidder's
\* timesAsKing is the number of distinct payment intents that crowned them.
C22_CoronationCount ==
    [][\A pi \in DOMAIN intents :
          Settles(pi) =>
             /\ \A u \in DOMAIN users :
                   users'[u].stats.timesAsKing =
                       IF ver'.king # ver.king /\ u = UserOf(pi)
                       THEN users[u].stats.timesAsKing + 1
                       ELSE users[u].stats.timesAsKing
             /\ \A u \in DOMAIN users :
                   users'[u].stats.timesAsKing = Cardinality(CrownedBy(u)')]_vars

\* C23: every bid the quoter accepts is quoted willBecomeKing = 'true': the
\* accepted amount is at least the Throne plus 0.01 less the bidder's total,
\* so the predicted total exceeds the Throne read for the quote.
C23_AcceptedQuoteCrowns ==
    /\ \A pi \in DOMAIN intents :
          LET md == intents[pi].metadata
          IN  /\ md.willBecomeKing = TrueString
              /\ ParseFloat(md.newTotalInvestment) > ParseFloat(md.currentKingAmount)
    /\ response.status = 200 =>
          /\ response.bid >= (ThroneAmount + EPSILON) - users[response.token].totalInvested
          /\ users[response.token].totalInvested + response.bid > ThroneAmount

\* a bid that only just reaches the required payment has been accepted: 5.01
\* from a bidder with 5.00 against a Throne of 10.00
C23_Witness ==
    /\ response.status = 200
    /\ response.bid = 501
    /\ users[response.token].totalInvested = 500
    /\ ThroneAmount = 1000
    /\ intents[Len(intents)].metadata.willBecomeKing = TrueString

\* the newTotal of the last PaymentEvent of bidder u, 0 when there is none
RECURSIVE LastNewTotal(_, _)
LastNewTotal(u, n) ==
    IF n = 0 THEN 0
    ELSE IF paymentHistory[n].userId = u THEN paymentHistory[n].newTotal
    ELSE LastNewTotal(u, n - 1)

\* C24: the PaymentEvents of one bidder form a chain: the previousTotal of
\* each is the bidder's totalInvested just before its settlement, which is 0
\* for the first and the newTotal of the bidder's preceding event otherwise,
\* and its newTotal is previousTotal + amountPaid.  Stated for the first
\* settlement of each payment intent (redeliveries are C1).
C24_HistoryChain ==
    [][\A pi \in DOMAIN intents :
          FirstSettles(pi) =>
             LET u == UserOf(pi)
             IN  /\ LastEvent'.userId = u
                 /\ LastEvent'.previousTotal = users[u].totalInvested
                 /\ LastEvent'.previousTotal = LastNewTotal(u, Len(paymentHistory))
                 /\ LastEvent'.newTotal
                       = LastEvent'.previousTotal + LastEvent'.amountPaid]_vars

\* C25: when the payer already holds the Throne and the settlement crowns
\* them, current/king keeps the userId and gets the new amount, the commit's
\* crownedAt and the payment intent; the holder's timesAsKing grows by 1; and
\* no bidder's totalTimeAsKing or longestReign changes: the time reigned so
\* far is credited to no one.
C25_HolderPaysAgain ==
    [][\A pi \in DOMAIN intents :
          (/\ Settles(pi)
           /\ ver'.king # ver.king
           /\ king.exists
           /\ king.userId = UserOf(pi))
          => LET u == UserOf(pi)
             IN  /\ king'.userId = u
                 /\ king'.amount = ParseFloat(intents[pi].metadata.newTotalInvestment)
                 /\ king'.crownedAt = now
                 /\ king'.paymentIntentId = pi
                 /\ users'[u].stats.timesAsKing = users[u].stats.timesAsKing + 1
                 /\ \A b \in DOMAIN users :
                       /\ users'[b].stats.totalTimeAsKing = users[b].stats.totalTimeAsKing
                       /\ users'[b].stats.longestReign = users[b].stats.longestReign]_vars

\* a holder crowned at 1 has paid again with a second intent and been crowned
\* again at 2, with no reign time credited
C25_Witness ==
    /\ Len(intents) = 2
    /\ UserOf(1) = UserOf(2)
    /\ Settled(1) /\ Settled(2)
    /\ king.userId = UserOf(2)
    /\ king.paymentIntentId = 2
    /\ king.crownedAt = 2
    /\ users[king.userId].stats.timesAsKing = 2
    /\ users[king.userId].stats.totalTimeAsKing = 0

====
